---- MODULE Spec2Model ----
(***************************************************************************)
(* A model of the fetch-extract pipeline of web_scraper.py                 *)
(* (EcommerceScraper): the field extractors as operators over character    *)
(* sequences, scrape_product_listings and scrape_reviews_selenium as state *)
(* machines whose environment (the network, the browser) is a              *)
(* nondeterministic choice of the outcomes the libraries can produce.      *)
(*                                                                         *)
(* Text is a sequence of one-character strings.  A Python float is the     *)
(* exact decimal [m, e] standing for m / 10^e, kept canonical (no trailing *)
(* zero in the fraction), so that equal numbers are equal records.         *)
(* The capture timestamp (scraped_at) of a record is left out: no          *)
(* operation reads it.                                                     *)
(*                                                                         *)
(* basic_csv_loader.py (SimplePostgreSQLLoader) is modelled by what        *)
(* load_csv_file does to the tables of the database: a DataFrame is a      *)
(* record of typed columns and rows, a table a record of SQL columns and   *)
(* rows; the database's answer to to_sql is a nondeterministic choice.     *)
(***************************************************************************)
EXTENDS Integers, Sequences, FiniteSets, TLC

VARIABLES
    \* ---- one call of a field extractor
    exFn,        \* which extractor is called
    exIn,        \* its argument
    exOut,       \* what the call produced
    exPc,        \* "call" | "done"
    \* ---- scrape_product_listings
    lpc,         \* "idle" | "fetch" | "blocked" | "delay" | "return" | "done"
    maxPages,    \* argument max_pages
    cat,         \* index into Categories of the outer loop
    page,        \* the inner loop's page
    products,    \* the accumulator `products`
    origin,      \* for each record of `products`, the (category, page) it came from
    gets,        \* ghost: session.get calls per (category, page)
    llog,        \* ghost: the (category, page) of each logger.error of line 92
    llast,       \* ghost: the last fetch: its task, outcome and the accumulator before it
    sinceDelay,  \* ghost: requests sent since the last _random_delay call
    lresult,     \* what the call gave its caller
    \* ---- scrape_reviews_selenium
    rpc,         \* "idle" | "launch" | "nav" | "wait" | "finally" | "done"
    urls,        \* argument product_urls
    maxReviews,  \* argument max_reviews
    driver,      \* "none" | "open" | "quit"
    launched,    \* ghost: webdriver.Chrome(...) succeeded
    quits,       \* ghost: number of driver.quit() calls
    ui,          \* index into ProductUrls of the loop
    reviews,     \* the accumulator `reviews`
    navs,        \* ghost: number of driver.get calls
    rlast,       \* ghost: the last loop event and the accumulator before it
    pending,     \* the exception in flight through the finally block, or "none"
    rresult,     \* what the call gave its caller
    \* ---- SimplePostgreSQLLoader
    dpc,         \* "idle" | "first" | "second" | "done": the load_csv_file call to come;
                 \* "scan" | "loop" | "loaded": where load_all_csv_files stands
    engine,      \* self.engine: "None" | "Engine"
    tables,      \* the database: for each table name, the table or AbsentTable
    dlast,       \* ghost: the last load_csv_file call: file, table, result, database before
    \* ---- load_all_csv_files and main
    csv_files,   \* the list csv_files of line 92
    fi,          \* index into csv_files of the loop of line 101
    successful_loads, \* the counter of lines 100-103
    attempts,    \* ghost: the load_csv_file calls of the loop and what each returned
    aresult,     \* what load_all_csv_files gave its caller
    mpc,         \* main: "idle" | "connect" | "load" | "show" | "sample" | "close" | "done"
    mlog,        \* ghost: the steps main has taken
    \* ---- scrape_social_mentions (gets and sinceDelay count its requests too)
    spc,         \* "idle" | "platform" | "blocked" | "delay" | "return" | "done"
    keywords,    \* argument keywords
    platforms,   \* argument platforms
    ki,          \* index into keywords of the outer loop
    pi,          \* index into platforms of the inner loop
    mentions,    \* the accumulator `mentions` of scrape_social_mentions
    slog,        \* ghost: the keyword index of each logger.error of line 261
    sresult      \* what the call gave its caller

exVars == <<exFn, exIn, exOut, exPc>>
lVars == <<lpc, maxPages, cat, page, products, origin, gets, llog, llast, sinceDelay, lresult>>
rVars == <<rpc, urls, maxReviews, driver, launched, quits, ui, reviews, navs, rlast, pending, rresult>>
dVars == <<dpc, engine, tables, dlast, csv_files, fi, successful_loads, attempts, aresult,
          mpc, mlog>>
sVars == <<spc, keywords, platforms, ki, pi, mentions, slog, sresult>>
vars == <<exVars, lVars, rVars, dVars, sVars>>

----------------------------------------------------------------------------
(* Bounds of the model *)

\* longest price text enumerated
MaxPriceLen == 3
\* longest number literal at the head of a rating text
MaxNumLen == 2
\* most filled-star markers in a rating element
MaxStars == 6
\* largest max_pages argument
MaxPages == 2
\* most product-item nodes on one page of a crawl of several pages
MaxItems == 1
\* longest product_urls argument
MaxUrls == 2
\* most product-item nodes of the page of a one-page crawl
MaxPageItems == 3
\* most review-item elements of a rendered page, and largest max_reviews
MaxReviewItems == 2
\* most data lines of a CSV file
MaxRows == 2
\* largest end of a delay_range, in seconds
MaxDelay == 3
\* most CSV files found under the data directory
MaxFiles == 2
\* most redirections followed by one session.get
MaxRedirects == 1
\* longest keywords argument
MaxKeywords == 2
\* decimal digits of the fractions random.random() is drawn from
RandomDigits == 1

\* ScrapingConfig.max_retries
MaxRetries == 3

----------------------------------------------------------------------------
(* Text *)

AsciiDigits == <<"0", "1", "2", "3", "4", "5", "6", "7", "8", "9">>

IsAsciiDigit(c) == \E i \in 1..10 : AsciiDigits[i] = c

\* str.isdigit: also true of digits float() does not accept, such as the
\* superscript two, written "sup2" here.
IsDigit(c) == IsAsciiDigit(c) \/ c = "sup2"

DigitVal(c) == (CHOOSE i \in 1..10 : AsciiDigits[i] = c) - 1

RECURSIVE Pow10(_)
Pow10(n) == IF n = 0 THEN 1 ELSE 10 * Pow10(n - 1)

RECURSIVE DigitsToNat(_)
DigitsToNat(s) ==
    IF s = <<>> THEN 0
    ELSE 10 * DigitsToNat(SubSeq(s, 1, Len(s) - 1)) + DigitVal(s[Len(s)])

\* the float m / 10^e in canonical form
RECURSIVE Float(_, _)
Float(m, e) ==
    IF e > 0 /\ m % 10 = 0 THEN Float(m \div 10, e - 1)
    ELSE [tag |-> "float", m |-> m, e |-> e]
Zero == Float(0, 0)
ValueError == [tag |-> "ValueError", m |-> 0, e |-> 0]
NumLeq(a, b) == a.m * Pow10(b.e) <= b.m * Pow10(a.e)

RECURSIVE LStrip(_)
LStrip(s) == IF s # <<>> /\ s[1] = " " THEN LStrip(Tail(s)) ELSE s

RECURSIVE RStrip(_)
RStrip(s) ==
    IF s # <<>> /\ s[Len(s)] = " " THEN RStrip(SubSeq(s, 1, Len(s) - 1)) ELSE s

\* str.strip()
Strip(s) == RStrip(LStrip(s))

\* sub in s
Contains(s, sub) ==
    \E i \in 1..(Len(s) - Len(sub) + 1) : SubSeq(s, i, i + Len(sub) - 1) = sub

\* the text before the first occurrence of c, the whole text when there is none
Before(s, c) ==
    IF \E i \in 1..Len(s) : s[i] = c
    THEN SubSeq(s, 1, (CHOOSE i \in 1..Len(s) :
                          s[i] = c /\ \A j \in 1..(i - 1) : s[j] # c) - 1)
    ELSE s

\* s.split()[0] of a text that holds a non-blank character
FirstWord(s) == Before(LStrip(s), " ")

\* s.split('/')[0]
BeforeSlash(s) == Before(s, "/")

Count(s, c) == Cardinality({i \in 1..Len(s) : s[i] = c})

\* float(s) of a text over digits, '.', sign and blanks: blanks around are
\* dropped, one optional sign, at least one digit, at most one '.'.  Letters
\* (nan, inf, exponents) and '_' are outside the alphabets used here.
ParseFloat(s) ==
    LET t == Strip(s)
        signed == t # <<>> /\ t[1] \in {"-", "+"}
        body == IF signed THEN Tail(t) ELSE t
        wellFormed ==
            /\ \A i \in 1..Len(body) : IsAsciiDigit(body[i]) \/ body[i] = "."
            /\ Count(body, ".") <= 1
            /\ \E i \in 1..Len(body) : IsAsciiDigit(body[i])
        int == Before(body, ".")
        frac == SubSeq(body, Len(int) + 2, Len(body))
        mag == DigitsToNat(int \o frac)
    IN IF ~wellFormed THEN ValueError
       ELSE Float(IF signed /\ t[1] = "-" THEN 0 - mag ELSE mag, Len(frac))

\* the length of the run of ASCII digits that starts at s[i]
RECURSIVE DigitRun(_, _)
DigitRun(s, i) ==
    IF i <= Len(s) /\ IsAsciiDigit(s[i]) THEN 1 + DigitRun(s, i + 1) ELSE 0

\* re.findall(r'\d+\.?\d*', s): the first match, <<>> when there is none
FirstNumber(s) ==
    IF ~\E i \in 1..Len(s) : IsAsciiDigit(s[i]) THEN <<>>
    ELSE LET i == CHOOSE k \in 1..Len(s) :
                      IsAsciiDigit(s[k]) /\ \A j \in 1..(k - 1) : ~IsAsciiDigit(s[j])
             n == DigitRun(s, i)
             dot == i + n <= Len(s) /\ s[i + n] = "."
             f == IF dot THEN DigitRun(s, i + n + 1) ELSE 0
         IN SubSeq(s, i, i + n - 1 + (IF dot THEN 1 + f ELSE 0))

----------------------------------------------------------------------------
(* Python values *)

PyStr(s) == [tag |-> "str", s |-> s]
PyNone == [tag |-> "None", s |-> <<>>]
NoRecord == [tag |-> "None"]
Pending == [tag |-> "pending"]

\* 'Unknown', the name of a product node without a product-name element
Unknown == <<"U", "n", "k", "n", "o", "w", "n">>
\* 'Anonymous', the reviewer name of line 198
Anonymous == <<"A", "n", "o", "n", "y", "m", "o", "u", "s">>

----------------------------------------------------------------------------
(* The field extractors *)

\* line 123: the characters _clean_price keeps
KeptByCleanPrice(c) == IsDigit(c) \/ c = "."

\* lines 123-124, the body of the try block
CleanPriceTry(price_text) ==
    LET cleaned == SelectSeq(price_text, KeptByCleanPrice)
    IN IF cleaned # <<>> THEN ParseFloat(cleaned) ELSE Zero

CleanPriceUncaught(price_text) ==
    LET cleaned == SelectSeq(price_text, KeptByCleanPrice)
    IN IF cleaned # <<>> THEN ParseFloat(cleaned) ELSE Zero

CleanPriceKeepingSign(price_text) ==
    LET cleaned == SelectSeq(price_text, LAMBDA c : KeptByCleanPrice(c) \/ c = "-")
        r == IF cleaned # <<>> THEN ParseFloat(cleaned) ELSE Zero
    IN IF r.tag = "ValueError" THEN Zero ELSE r

\* _clean_price: the bare except turns a failed float() into 0.0
CleanPrice(price_text) ==
    LET r == CleanPriceTry(price_text)
    IN IF r.tag = "ValueError" THEN Zero ELSE r

OutOf == <<"o", "u", "t", " ", "o", "f">>
SlashFive == <<"/", "5">>

\* lines 132-140, the body of the try block; a rating element is its text and
\* the number of span.star-filled nodes in it
ExtractRatingTry(rating_element) ==
    LET rating_text == Strip(rating_element.text)
    IN IF Contains(rating_text, OutOf) THEN ParseFloat(FirstWord(rating_text))
       ELSE IF Contains(rating_text, SlashFive) THEN ParseFloat(BeforeSlash(rating_text))
       ELSE IF rating_element.stars > 0 THEN Float(rating_element.stars, 0)
       ELSE Zero

\* _extract_rating
ExtractRating(rating_element) ==
    LET r == ExtractRatingTry(rating_element)
    IN IF r.tag = "ValueError" THEN Zero ELSE r

\* _extract_rating_from_text
ExtractRatingFromText(rating_text) ==
    LET matches == FirstNumber(rating_text)
        r == IF matches # <<>> THEN ParseFloat(matches) ELSE Zero
    IN IF r.tag = "ValueError" THEN Zero ELSE r

\* line 107: the name field
NameField(name) == IF name.found THEN Strip(name.text) ELSE Unknown

\* line 110: the image field; Tag.get('src') of an img without src is None
ImageField(img) ==
    IF img.found THEN (IF img.hasSrc THEN PyStr(img.src) ELSE PyNone)
    ELSE PyStr(<<>>)

\* _extract_product_data: a product-item node is what find() gives for each
\* of its four selectors.  Nothing in the try block raises on a parsed tag,
\* so the except branch (return None) is not taken.
ExtractProductData(element, category) ==
    [tag |-> "record",
     name |-> NameField(element.name),
     price |-> CleanPrice(IF element.price.found THEN element.price.text ELSE <<"0">>),
     rating |-> IF element.rating.found THEN ExtractRating(element.rating) ELSE Zero,
     image_url |-> ImageField(element.img),
     category |-> category,
     source |-> "competitor_site"]

\* lines 191-194: find_element raises NoSuchElementException for a missing child
ReviewChildrenFound(element) ==
    /\ element.reviewer.found
    /\ element.rating.found
    /\ element.text.found
    /\ element.date.found

\* lines 196-203: the record built once the four children are found
ReviewRecord(element, product_url) ==
    [tag |-> "record",
     product_url |-> product_url,
     reviewer_name |-> IF element.reviewer.found THEN Strip(element.reviewer.text)
                       ELSE Anonymous,
     rating |-> ExtractRatingFromText(IF element.rating.found THEN element.rating.text
                                      ELSE <<>>),
     review_text |-> IF element.text.found THEN Strip(element.text.text) ELSE <<>>,
     review_date |-> IF element.date.found THEN Strip(element.date.text) ELSE <<>>]

\* _extract_review_data: the exception of a missing child is caught at line
\* 204 and the whole record is None
ExtractReviewData(element, product_url) ==
    IF ReviewChildrenFound(element)
    THEN ReviewRecord(element, product_url)
    ELSE NoRecord

----------------------------------------------------------------------------
(* The inputs of the extractors *)

SeqsUpTo(A, n) == UNION {[1..k -> A] : k \in 0..n}

PriceAlphabet == {"$", ",", "1", "5", ".", "-", "sup2"}

\* "$1,234.56"
ExamplePrice == <<"$", "1", ",", "2", "3", "4", ".", "5", "6">>
\* 1234.56
ExamplePriceValue == Float(123456, 2)

PriceTexts ==
    SeqsUpTo(PriceAlphabet, MaxPriceLen)
        \cup {ExamplePrice, <<"N", "/", "A">>, <<"1", ".", "2", ".", "3">>,
              <<".", ".">>, <<"-", "1", "2", ".", "5", "0">>}

NumberAlphabet == {"4", "9", ".", "-"}

RatingSuffixes ==
    {<<>>,
     <<" ", "o", "u", "t", " ", "o", "f", " ", "5">>,
     <<" ", "o", "u", "t", " ", "o", "f", " ", "1", "0">>,
     <<"/", "5">>,
     <<"/", "1", "0">>,
     <<" ", "s", "t", "a", "r", "s">>}

RatingTexts ==
    {n \o x : n \in SeqsUpTo(NumberAlphabet, MaxNumLen), x \in RatingSuffixes}

RatingElements == [text : RatingTexts, stars : 0..MaxStars]

Absent == [found |-> FALSE, text |-> <<>>]
Found(t) == [found |-> TRUE, text |-> t]

ProductNodes ==
    [name : {Absent, Found(<<" ", "M", "u", "g", " ">>)},
     price : {Absent, Found(ExamplePrice), Found(<<"N", "/", "A">>)},
     rating : {[found |-> FALSE, text |-> <<>>, stars |-> 0],
               [found |-> TRUE, text |-> <<"4", ".", "5", " ", "o", "u", "t", " ", "o", "f", " ", "5">>,
                stars |-> 0],
               [found |-> TRUE, text |-> <<"o", "u", "t", " ", "o", "f", " ", "5">>,
                stars |-> 3],
               [found |-> TRUE, text |-> <<>>, stars |-> 3]},
     img : {[found |-> FALSE, hasSrc |-> FALSE, src |-> <<>>],
            [found |-> TRUE, hasSrc |-> FALSE, src |-> <<>>],
            [found |-> TRUE, hasSrc |-> TRUE, src |-> <<"a", ".", "p", "n", "g">>]}]

ReviewNodes ==
    [reviewer : {Absent, Found(<<" ", "A", "n", "n">>)},
     rating : {Absent, Found(<<>>), Found(<<"4", " ", "s", "t", "a", "r", "s">>),
               Found(<<"1", "0", "/", "1", "0">>)},
     text : {Absent, Found(<<"o", "k", " ">>)},
     date : {Absent, Found(<<"2", "0", "2", "4">>)}]

Categories == <<"electronics", "books">>
UrlNames == {"u1", "u2"}

----------------------------------------------------------------------------
(* basic_csv_loader.py: what load_csv_file computes before the write *)

\* str.lower on the letters A..Z
Lower(s) ==
    LET UpperCase == <<"A", "B", "C", "D", "E", "F", "G", "H", "I", "J", "K", "L", "M",
                       "N", "O", "P", "Q", "R", "S", "T", "U", "V", "W", "X", "Y", "Z">>
        LowerCase == <<"a", "b", "c", "d", "e", "f", "g", "h", "i", "j", "k", "l", "m",
                       "n", "o", "p", "q", "r", "s", "t", "u", "v", "w", "x", "y", "z">>
        LowerChar(c) ==
            IF \E i \in DOMAIN UpperCase : UpperCase[i] = c
            THEN LowerCase[CHOOSE i \in DOMAIN UpperCase : UpperCase[i] = c]
            ELSE c
    IN [i \in 1..Len(s) |-> LowerChar(s[i])]

\* str.replace of one character by another
Replace(s, old, new) == [i \in 1..Len(s) |-> IF s[i] = old THEN new ELSE s[i]]

\* lines 56-57, for table_name not given
TableNameOf(stem) == Replace(Replace(Lower(stem), "-", "_"), " ", "_")

\* line 60
CleanColumnName(col) == Replace(Replace(Lower(col), " ", "_"), "-", "_")

NaN == [tag |-> "NaN"]
NaT == [tag |-> "NaT"]
Null == [tag |-> "NULL"]
PyInt(n) == [tag |-> "int", v |-> n]

IsIntegerText(c) == c # <<>> /\ \A i \in 1..Len(c) : IsAsciiDigit(c[i])

\* pd.read_csv's type inference for one column of cells: integers give
\* int64, integers with empty cells (or only empty cells) float64, anything
\* else object; a file without data lines gives object columns
InferDtype(cells) ==
    IF cells = <<>> THEN "object"
    ELSE IF \A i \in 1..Len(cells) : cells[i] = <<>> \/ IsIntegerText(cells[i])
         THEN IF \E i \in 1..Len(cells) : cells[i] = <<>> THEN "float64" ELSE "int64"
         ELSE "object"

ReadCell(c, dtype) ==
    IF c = <<>> THEN NaN
    ELSE IF dtype = "int64" THEN PyInt(DigitsToNat(c))
    ELSE IF dtype = "float64" THEN Float(DigitsToNat(c), 0)
    ELSE PyStr(c)

ColumnCells(rows, j) == [i \in 1..Len(rows) |-> rows[i][j]]

\* line 52: the DataFrame of a readable file
ReadCsv(csv) ==
    LET dtypes == [j \in 1..Len(csv.header) |-> InferDtype(ColumnCells(csv.rows, j))]
    IN [cols |-> [j \in 1..Len(csv.header) |->
                    [name |-> csv.header[j], dtype |-> dtypes[j]]],
        rows |-> [i \in 1..Len(csv.rows) |->
                    [j \in 1..Len(csv.header) |-> ReadCell(csv.rows[i][j], dtypes[j])]]]

\* line 60
CleanColumns(df) ==
    [df EXCEPT !.cols = [j \in 1..Len(df.cols) |->
                           [df.cols[j] EXCEPT !.name = CleanColumnName(@)]]]

AllNaN(row) == \A j \in 1..Len(row) : row[j] = NaN

\* line 63
DropNaAll(df) == [df EXCEPT !.rows = SelectSeq(@, LAMBDA row : ~AllNaN(row))]

IsLeap(year) == year % 4 = 0 /\ (year % 100 # 0 \/ year % 400 = 0)

DaysIn(year, month) ==
    IF month = 2 THEN (IF IsLeap(year) THEN 29 ELSE 28)
    ELSE IF month \in {4, 6, 9, 11} THEN 30 ELSE 31

\* the date texts read here are of the form YYYY-MM-DD, which pd.to_datetime
\* converts when they name a day of the calendar
IsIsoDate(t) ==
    /\ Len(t) = 10
    /\ t[5] = "-" /\ t[8] = "-"
    /\ \A i \in {1, 2, 3, 4, 6, 7, 9, 10} : IsAsciiDigit(t[i])
    /\ DigitsToNat(SubSeq(t, 6, 7)) \in 1..12
    /\ DigitsToNat(SubSeq(t, 9, 10))
          \in 1..DaysIn(DigitsToNat(SubSeq(t, 1, 4)), DigitsToNat(SubSeq(t, 6, 7)))

Timestamp(t) ==
    [tag |-> "Timestamp", year |-> DigitsToNat(SubSeq(t, 1, 4)),
     month |-> DigitsToNat(SubSeq(t, 6, 7)), day |-> DigitsToNat(SubSeq(t, 9, 10))]

\* pd.to_datetime(column) raises when a text is no date
ToDatetimeRaises(cells) ==
    \E i \in 1..Len(cells) : cells[i].tag = "str" /\ ~IsIsoDate(cells[i].s)

ToDatetime(v) == IF v.tag = "str" /\ IsIsoDate(v.s) THEN Timestamp(v.s) ELSE NaT

\* line 67
IsDateColumn(col) ==
    Contains(Lower(col.name), <<"d", "a", "t", "e">>) /\ col.dtype = "object"

\* pd.to_datetime(..., errors='coerce') in place of the bare except
CoercedLeniently(df, j) == IsDateColumn(df.cols[j])

\* lines 66-71 for column j: converted, or left as it is when the conversion
\* raises (bare except)
Coerced(df, j) ==
    IsDateColumn(df.cols[j]) /\ ~ToDatetimeRaises(ColumnCells(df.rows, j))

HandleDateColumns(df) ==
    LET converted == [j \in 1..Len(df.cols) |-> Coerced(df, j)]
    IN [cols |-> [j \in 1..Len(df.cols) |->
                    IF converted[j]
                    THEN [df.cols[j] EXCEPT !.dtype = "datetime64[ns]"]
                    ELSE df.cols[j]],
        rows |-> [i \in 1..Len(df.rows) |->
                    [j \in 1..Len(df.cols) |->
                       IF converted[j] THEN ToDatetime(df.rows[i][j])
                       ELSE df.rows[i][j]]]]

\* lines 52-71: the frame handed to to_sql
Prepare(csv) == HandleDateColumns(DropNaAll(CleanColumns(ReadCsv(csv))))

\* the column type to_sql gives a dtype
SqlType(dtype) ==
    CASE dtype = "int64" -> "BIGINT"
      [] dtype = "float64" -> "FLOAT(53)"
      [] dtype = "datetime64[ns]" -> "TIMESTAMP"
      [] OTHER -> "TEXT"

SqlValue(v) == IF v \in {NaN, NaT} THEN Null ELSE v

AbsentTable == [exists |-> FALSE, cols |-> <<>>, rows |-> <<>>]

\* the table to_sql creates for a frame (index=False), before any row
CreatedTable(df) ==
    [exists |-> TRUE,
     cols |-> [j \in 1..Len(df.cols) |->
                 [name |-> df.cols[j].name, type |-> SqlType(df.cols[j].dtype)]],
     rows |-> <<>>]

InsertedRows(df) ==
    [i \in 1..Len(df.rows) |-> [j \in 1..Len(df.cols) |-> SqlValue(df.rows[i][j])]]

\* if_exists='append' in place of 'replace'
AppendedTable(old, df) ==
    IF old.exists
    THEN [old EXCEPT !.rows = @ \o InsertedRows(df)]
    ELSE [CreatedTable(df) EXCEPT !.rows = InsertedRows(df)]

\* line 74 when it succeeds: the table replaced by the frame
ReplacedTable(old, df) == [CreatedTable(df) EXCEPT !.rows = InsertedRows(df)]

----------------------------------------------------------------------------
(* The CSV files given to the loader *)

Stems == {<<"O", "r", "d", "e", "r", "-", "I", "t", "e", "m", "s">>,
          <<"r", "e", "t", "u", "r", "n", "s">>}

Headers ==
    {<<<<"I", "d">>, <<"O", "r", "d", "e", "r", " ", "D", "a", "t", "e">>>>,
     <<<<"I", "d">>, <<"N", "o", "t", "e">>>>,
     <<<<"U", "p", "d", "a", "t", "e", "-", "I", "d">>, <<"N", "o", "t", "e">>>>}

IsoDate == <<"2", "0", "2", "4", "-", "0", "1", "-", "0", "5">>

\* one data line per kind: a dated one, one whose second cell is no date,
\* and one with only empty cells
CsvRows ==
    {<<<<"1">>, IsoDate>>,
     <<<<"2">>, <<"s", "o", "o", "n">>>>,
     <<<<>>, <<>>>>}

CsvFiles == [stem : Stems, header : Headers, rows : SeqsUpTo(CsvRows, MaxRows)]

TableNames == {TableNameOf(stem) : stem \in Stems}

\* the CSV files that may lie under the data directory, in its
\* sub-directories a and b: two of one stem, one whose stem differs from
\* theirs by case and separator only, and one of another stem
DirFiles ==
    LET IdNote == <<<<"I", "d">>, <<"N", "o", "t", "e">>>>
        Dated == <<<<"1">>, IsoDate>>
        Undated == <<<<"2">>, <<"s", "o", "o", "n">>>>
    IN {[dir |-> "a", stem |-> <<"O", "r", "d", "e", "r", "-", "I", "t", "e", "m", "s">>,
         header |-> IdNote, rows |-> <<Dated>>],
        [dir |-> "b", stem |-> <<"O", "r", "d", "e", "r", "-", "I", "t", "e", "m", "s">>,
         header |-> IdNote, rows |-> <<Undated>>],
        [dir |-> "b", stem |-> <<"o", "r", "d", "e", "r", " ", "i", "t", "e", "m", "s">>,
         header |-> IdNote, rows |-> <<Dated, Undated>>],
        [dir |-> "a", stem |-> <<"r", "e", "t", "u", "r", "n", "s">>,
         header |-> IdNote, rows |-> <<Undated, Dated>>]}

\* what load_csv_file reads of a path: its stem and the file's content
Csv(file) == [stem |-> file.stem, header |-> file.header, rows |-> file.rows]

\* line 92: list(data_path.rglob("*.csv")), in the order the file system gives
FoundLists ==
    {files \in SeqsUpTo(DirFiles, MaxFiles) :
        \A i, j \in 1..Len(files) : i # j => files[i] # files[j]}

\* lines 52-71 and lines 56-57 on each of the files, tabulated
Frames == [csv \in CsvFiles \cup {Csv(file) : file \in DirFiles} |-> Prepare(csv)] @@ <<>>
TableNameFor ==
    [stem \in Stems \cup {file.stem : file \in DirFiles} |-> TableNameOf(stem)] @@ <<>>

----------------------------------------------------------------------------
(* The other operations at rest *)

LIdle ==
    /\ lpc = "idle"
    /\ maxPages = 0
    /\ cat = 0
    /\ page = 0
    /\ products = <<>>
    /\ origin = <<>>
    /\ gets = <<>>
    /\ llog = <<>>
    /\ llast = [kind |-> "none"]
    /\ sinceDelay = 0
    /\ lresult = Pending

RIdle ==
    /\ rpc = "idle"
    /\ urls = <<>>
    /\ maxReviews = 0
    /\ driver = "none"
    /\ launched = FALSE
    /\ quits = 0
    /\ ui = 0
    /\ reviews = <<>>
    /\ navs = 0
    /\ rlast = [kind |-> "none"]
    /\ pending = "none"
    /\ rresult = Pending

ExIdle ==
    /\ exFn = "none"
    /\ exIn = <<>>
    /\ exOut = Pending
    /\ exPc = "idle"

AIdle ==
    /\ csv_files = <<>>
    /\ fi = 0
    /\ successful_loads = 0
    /\ attempts = <<>>
    /\ aresult = Pending
    /\ mpc = "idle"
    /\ mlog = <<>>

DIdle ==
    /\ dpc = "idle"
    /\ engine = "None"
    /\ tables = [t \in TableNames |-> AbsentTable]
    /\ dlast = [kind |-> "none"]
    /\ AIdle

SIdle ==
    /\ spc = "idle"
    /\ keywords = <<>>
    /\ platforms = <<>>
    /\ ki = 0
    /\ pi = 0
    /\ mentions = <<>>
    /\ slog = <<>>
    /\ sresult = Pending

----------------------------------------------------------------------------
(* One call of an extractor on one input *)

InitExtract ==
    /\ \/ exFn = "_clean_price" /\ exIn \in PriceTexts
       \/ exFn = "_extract_rating" /\ exIn \in RatingElements
       \/ exFn = "_extract_rating_from_text" /\ exIn \in RatingTexts
       \/ exFn = "_extract_product_data" /\ exIn \in ProductNodes
       \/ exFn = "_extract_review_data" /\ exIn \in ReviewNodes
    /\ exOut = Pending
    /\ exPc = "call"
    /\ LIdle
    /\ RIdle
    /\ DIdle
    /\ SIdle

Return(value) ==
    /\ exPc = "call"
    /\ exOut' = value
    /\ exPc' = "done"
    /\ UNCHANGED <<exFn, exIn, lVars, rVars, dVars, sVars>>

CallCleanPrice == exFn = "_clean_price" /\ Return(CleanPrice(exIn))

CallExtractRating == exFn = "_extract_rating" /\ Return(ExtractRating(exIn))

CallExtractRatingFromText ==
    exFn = "_extract_rating_from_text" /\ Return(ExtractRatingFromText(exIn))

CallExtractProductData ==
    exFn = "_extract_product_data" /\ Return(ExtractProductData(exIn, Categories[1]))

CallExtractReviewData ==
    exFn = "_extract_review_data" /\ Return(ExtractReviewData(exIn, "u1"))

NextExtract ==
    \/ CallCleanPrice
    \/ CallExtractRating
    \/ CallExtractRatingFromText
    \/ CallExtractProductData
    \/ CallExtractReviewData

SpecExtract == InitExtract /\ [][NextExtract]_vars

----------------------------------------------------------------------------
(* One call of _random_delay *)

\* random.random(): a fraction k / 10^RandomDigits of [0, 1)
RandomDraws == 0..(Pow10(RandomDigits) - 1)

\* the delay_range of the constructor, the default (1, 3) among them
DelayRanges == (0..MaxDelay) \X (0..MaxDelay)

UniformFromZero(a, b, k) == Float(a * Pow10(RandomDigits) + b * k, RandomDigits)

\* random.uniform(a, b) = a + (b - a) * random.random()
Uniform(a, b, k) == Float(a * Pow10(RandomDigits) + (b - a) * k, RandomDigits)

InitDelay ==
    /\ exFn = "_random_delay"
    /\ exIn \in [delay_range : DelayRanges, random : RandomDraws]
    /\ exOut = Pending
    /\ exPc = "call"
    /\ LIdle
    /\ RIdle
    /\ DIdle
    /\ SIdle

\* lines 36-37: the delay drawn and slept
CallRandomDelay ==
    /\ exFn = "_random_delay"
    /\ Return(Uniform(exIn.delay_range[1], exIn.delay_range[2], exIn.random))

SpecDelay == InitDelay /\ [][CallRandomDelay]_vars

----------------------------------------------------------------------------
(* scrape_product_listings(base_url, Categories, maxPages) *)

\* what session.get(url) can give: a response with a status, or an exception,
\* in both cases after following `redirects` redirections (allow_redirects is
\* on for GET), each of them one more request sent
FetchOutcomes ==
    [kind : {"response"}, status : {200, 300, 404, 500}, redirects : 0..MaxRedirects]
        \cup [kind : {"ConnectionError", "Timeout"}, status : {0},
              redirects : 0..MaxRedirects]

\* response.raise_for_status(): HTTPError for 400 <= status < 600 and for no
\* other status; a 3xx that is not a followable redirect, like 300, passes
RaisesForStatus(status) == 400 <= status /\ status < 600

\* lines 72-73 raise
FetchRaises(outcome) ==
    outcome.kind # "response" \/ RaisesForStatus(outcome.status)

\* the failures the specification calls transient
Transient(outcome) ==
    \/ outcome.kind \in {"ConnectionError", "Timeout"}
    \/ outcome.kind = "response" /\ 500 <= outcome.status /\ outcome.status < 600

\* the product-item nodes a listing page may hold
ListingNodes ==
    {n \in ProductNodes :
        /\ n.name.found
        /\ n.price \in {Absent, Found(ExamplePrice)}
        /\ ~n.rating.found
        /\ ~n.img.found}

\* the pages of a crawl hold priced nodes; pages with unpriced nodes are the
\* PageDocs of the one-page crawl below
ListingDocs == SeqsUpTo({n \in ListingNodes : n.price.found}, MaxItems)

Tasks == (1..Len(Categories)) \X (1..maxPages)

InitListings ==
    /\ maxPages \in 0..MaxPages
    /\ IF maxPages >= 1
       THEN lpc = "fetch" /\ cat = 1 /\ page = 1
       ELSE lpc = "return" /\ cat = Len(Categories) /\ page = 0
    /\ products = <<>>
    /\ origin = <<>>
    /\ gets = [t \in Tasks |-> 0]
    /\ llog = <<>>
    /\ llast = [kind |-> "none"]
    /\ sinceDelay = 0
    /\ lresult = Pending
    /\ ExIdle
    /\ RIdle
    /\ DIdle
    /\ SIdle

\* lines 64 and 67: the next iteration of the two loops, or line 95
NextTask ==
    IF page < maxPages
    THEN lpc' = "fetch" /\ page' = page + 1 /\ cat' = cat
    ELSE IF cat < Len(Categories)
         THEN lpc' = "fetch" /\ page' = 1 /\ cat' = cat + 1
         ELSE lpc' = "return" /\ UNCHANGED <<cat, page>>

RECURSIVE ExtractAllSkippingUnpriced(_, _)
ExtractAllSkippingUnpriced(doc, category) ==
    IF doc = <<>> THEN <<>>
    ELSE LET product_data == ExtractProductData(Head(doc), category)
         IN (IF Head(doc).price.found THEN <<product_data>> ELSE <<>>)
                \o ExtractAllSkippingUnpriced(Tail(doc), category)

\* lines 80-87: one record per node; a non-empty dict is truthy
RECURSIVE ExtractAll(_, _)
ExtractAll(doc, category) ==
    IF doc = <<>> THEN <<>>
    ELSE LET product_data == ExtractProductData(Head(doc), category)
         IN (IF product_data.tag = "record" THEN <<product_data>> ELSE <<>>)
                \o ExtractAll(Tail(doc), category)

\* line 72: one session.get call, and the requests it sends: the GET of the
\* url and one GET per redirection followed
IssueGet(outcome) ==
    /\ gets' = [gets EXCEPT ![<<cat, page>>] = @ + 1]
    /\ sinceDelay' = sinceDelay + 1 + outcome.redirects

FailedFetchPropagates(outcome) ==
    /\ lpc = "fetch"
    /\ FetchRaises(outcome)
    /\ IssueGet(outcome)
    /\ llast' = [kind |-> "failed", cat |-> cat, page |-> page,
                 outcome |-> outcome, before |-> products]
    /\ lpc' = "done"
    /\ lresult' = [tag |-> "raised", rows |-> <<>>]
    /\ UNCHANGED <<maxPages, cat, page, products, origin, llog, exVars, rVars, dVars, sVars>>

FailedFetchRetried(outcome) ==
    /\ lpc = "fetch"
    /\ FetchRaises(outcome)
    /\ IssueGet(outcome)
    /\ llast' = [kind |-> "failed", cat |-> cat, page |-> page,
                 outcome |-> outcome, before |-> products]
    /\ IF gets[<<cat, page>>] + 1 < MaxRetries
       THEN UNCHANGED <<lpc, cat, page, llog>>
       ELSE llog' = Append(llog, <<cat, page>>) /\ NextTask
    /\ UNCHANGED <<maxPages, products, origin, lresult, exVars, rVars, dVars, sVars>>

\* lines 72-73 raise, lines 91-93: logged, the inner loop goes on
FetchFails(outcome) ==
    /\ lpc = "fetch"
    /\ FetchRaises(outcome)
    /\ IssueGet(outcome)
    /\ llog' = Append(llog, <<cat, page>>)
    /\ llast' = [kind |-> "failed", cat |-> cat, page |-> page,
                 outcome |-> outcome, before |-> products]
    /\ NextTask
    /\ UNCHANGED <<maxPages, products, origin, lresult, exVars, rVars, dVars, sVars>>

FetchParsesPrepending(outcome, doc) ==
    /\ lpc = "fetch"
    /\ ~FetchRaises(outcome)
    /\ IssueGet(outcome)
    /\ products' = ExtractAll(doc, Categories[cat]) \o products
    /\ origin' = [i \in 1..Len(ExtractAll(doc, Categories[cat])) |-> <<cat, page>>] \o origin
    /\ llast' = [kind |-> "parsed", cat |-> cat, page |-> page,
                 outcome |-> outcome, before |-> products, doc |-> doc]
    /\ lpc' = "delay"
    /\ UNCHANGED <<maxPages, cat, page, llog, lresult, exVars, rVars, dVars, sVars>>

\* lines 72-87: the response passes raise_for_status, its body is parsed and
\* every product-item node extracted
FetchParses(outcome, doc) ==
    /\ lpc = "fetch"
    /\ ~FetchRaises(outcome)
    /\ IssueGet(outcome)
    /\ products' = products \o ExtractAll(doc, Categories[cat])
    /\ origin' = origin \o [i \in 1..Len(ExtractAll(doc, Categories[cat])) |-> <<cat, page>>]
    /\ llast' = [kind |-> "parsed", cat |-> cat, page |-> page,
                 outcome |-> outcome, before |-> products, doc |-> doc]
    /\ lpc' = "delay"
    /\ UNCHANGED <<maxPages, cat, page, llog, lresult, exVars, rVars, dVars, sVars>>

\* line 72 never returns: no timeout is passed, so a server that accepts the
\* connection and never answers keeps session.get waiting without deadline,
\* at the GET of the url or at the GET of a redirection followed; nothing is
\* logged and nothing returned
FetchBlocks(redirects) ==
    /\ lpc = "fetch"
    /\ LET NoAnswer == [kind |-> "no answer", status |-> 0, redirects |-> redirects]
       IN /\ IssueGet(NoAnswer)
          /\ llast' = [kind |-> "blocked", cat |-> cat, page |-> page,
                       outcome |-> NoAnswer, before |-> products]
    /\ lpc' = "blocked"
    /\ UNCHANGED <<maxPages, cat, page, products, origin, llog, lresult, exVars, rVars, dVars,
                   sVars>>

\* line 89
RandomDelayAfterPage ==
    /\ lpc = "delay"
    /\ sinceDelay' = 0
    /\ NextTask
    /\ UNCHANGED <<maxPages, products, origin, gets, llog, llast, lresult, exVars, rVars, dVars,
                   sVars>>

\* line 95
ReturnListings ==
    /\ lpc = "return"
    /\ lresult' = [tag |-> "DataFrame", rows |-> products]
    /\ lpc' = "done"
    /\ UNCHANGED <<maxPages, cat, page, products, origin, gets, llog, llast, sinceDelay,
                   exVars, rVars, dVars, sVars>>

NextListings ==
    \/ \E outcome \in FetchOutcomes : FetchFails(outcome)
    \/ \E outcome \in FetchOutcomes, doc \in ListingDocs : FetchParses(outcome, doc)
    \/ \E redirects \in 0..MaxRedirects : FetchBlocks(redirects)
    \/ RandomDelayAfterPage
    \/ ReturnListings

SpecListings == InitListings /\ [][NextListings]_vars

\* The call as a sequential program that keeps running: every statement that
\* can execute eventually does (time.sleep returns, the DataFrame is built);
\* session.get returns, raises, or waits for ever (FetchBlocks), after which
\* no step is enabled
SpecListingsFair == SpecListings /\ WF_vars(NextListings)

\* The same call with max_pages = 1 and pages of up to MaxPageItems nodes
PageDocs == SeqsUpTo(ListingNodes, MaxPageItems)

InitListingPage == InitListings /\ maxPages = 1

NextListingPage ==
    \/ \E outcome \in FetchOutcomes : FetchFails(outcome)
    \/ \E outcome \in FetchOutcomes, doc \in PageDocs : FetchParses(outcome, doc)
    \/ \E redirects \in 0..MaxRedirects : FetchBlocks(redirects)
    \/ RandomDelayAfterPage
    \/ ReturnListings

SpecListingPage == InitListingPage /\ [][NextListingPage]_vars

----------------------------------------------------------------------------
(* scrape_reviews_selenium(urls, maxReviews) *)

\* the review-item elements a rendered page may hold
ReviewDocNodes ==
    {n \in ReviewNodes :
        /\ n.rating = Found(<<"4", " ", "s", "t", "a", "r", "s">>)
        /\ n.text.found
        /\ n.date.found}

ReviewDocs == SeqsUpTo(ReviewDocNodes, MaxReviewItems)

InitReviews ==
    /\ urls \in SeqsUpTo(UrlNames, MaxUrls)
    /\ maxReviews \in 0..MaxReviewItems
    /\ rpc = "launch"
    /\ driver = "none"
    /\ launched = FALSE
    /\ quits = 0
    /\ ui = 0
    /\ reviews = <<>>
    /\ navs = 0
    /\ rlast = [kind |-> "none"]
    /\ pending = "none"
    /\ rresult = Pending
    /\ ExIdle
    /\ LIdle
    /\ DIdle
    /\ SIdle

\* lines 146-150 with lines 49-51: the browser starts
LaunchDriver ==
    /\ rpc = "launch"
    /\ driver' = "open"
    /\ launched' = TRUE
    /\ ui' = 1
    /\ rpc' = IF urls = <<>> THEN "finally" ELSE "nav"
    /\ UNCHANGED <<urls, maxReviews, quits, reviews, navs, rlast, pending, rresult,
                   exVars, lVars, dVars, sVars>>

\* lines 52-55 and 147-148: webdriver.Chrome raises, _setup_selenium_driver
\* logs and returns None, the caller gets an empty DataFrame
LaunchFails ==
    /\ rpc = "launch"
    /\ rresult' = [tag |-> "DataFrame", rows |-> <<>>]
    /\ rpc' = "done"
    /\ UNCHANGED <<urls, maxReviews, driver, launched, quits, ui, reviews, navs,
                   rlast, pending, exVars, lVars, dVars, sVars>>

\* line 153: the next url, or the end of the loop
NextUrl ==
    /\ ui' = ui + 1
    /\ rpc' = IF ui < Len(urls) THEN "nav" ELSE "finally"

\* lines 156-157: the page loads, then the pacing delay
Navigate ==
    /\ rpc = "nav"
    /\ navs' = navs + 1
    /\ rlast' = [kind |-> "navigated", i |-> ui, before |-> reviews]
    /\ rpc' = "wait"
    /\ UNCHANGED <<urls, maxReviews, driver, launched, quits, ui, reviews, pending,
                   rresult, exVars, lVars, dVars, sVars>>

NavigateRaisesPastQuit ==
    /\ rpc = "nav"
    /\ navs' = navs + 1
    /\ rlast' = [kind |-> "nav_raised", i |-> ui, before |-> reviews]
    /\ pending' = "WebDriverException"
    /\ rresult' = [tag |-> "raised", rows |-> <<>>]
    /\ rpc' = "done"
    /\ UNCHANGED <<urls, maxReviews, driver, launched, quits, ui, reviews, exVars, lVars, dVars,
                   sVars>>

NavigateRaisesIsolated ==
    /\ rpc = "nav"
    /\ navs' = navs + 1
    /\ rlast' = [kind |-> "nav_raised", i |-> ui, before |-> reviews]
    /\ NextUrl
    /\ UNCHANGED <<urls, maxReviews, driver, launched, quits, reviews, pending, rresult,
                   exVars, lVars, dVars, sVars>>

\* line 156 raises: nothing catches it inside the loop, the finally block runs
NavigateRaises ==
    /\ rpc = "nav"
    /\ navs' = navs + 1
    /\ rlast' = [kind |-> "nav_raised", i |-> ui, before |-> reviews]
    /\ pending' = "WebDriverException"
    /\ rpc' = "finally"
    /\ UNCHANGED <<urls, maxReviews, driver, launched, quits, ui, reviews, rresult,
                   exVars, lVars, dVars, sVars>>

WaitTimeoutRaises ==
    /\ rpc = "wait"
    /\ rlast' = [kind |-> "timeout", i |-> ui, before |-> reviews]
    /\ pending' = "TimeoutException"
    /\ rpc' = "finally"
    /\ UNCHANGED <<urls, maxReviews, driver, launched, quits, ui, reviews, navs,
                   rresult, exVars, lVars, dVars, sVars>>

\* lines 160-166: the marker never appears, the bare except logs and continues
WaitTimesOut ==
    /\ rpc = "wait"
    /\ rlast' = [kind |-> "timeout", i |-> ui, before |-> reviews]
    /\ NextUrl
    /\ UNCHANGED <<urls, maxReviews, driver, launched, quits, reviews, navs, pending,
                   rresult, exVars, lVars, dVars, sVars>>

RECURSIVE ExtractAllReviewsKeepingNone(_, _)
ExtractAllReviewsKeepingNone(elements, url) ==
    IF elements = <<>> THEN <<>>
    ELSE <<ExtractReviewData(Head(elements), url)>>
             \o ExtractAllReviewsKeepingNone(Tail(elements), url)

\* lines 204-206: the warnings logged by _extract_review_data over the loop
RECURSIVE ReviewWarnings(_, _)
ReviewWarnings(elements, url) ==
    IF elements = <<>> THEN 0
    ELSE (IF ExtractReviewData(Head(elements), url) = NoRecord THEN 1 ELSE 0)
             + ReviewWarnings(Tail(elements), url)

\* lines 171-178: one record per element, None skipped
RECURSIVE ExtractAllReviews(_, _)
ExtractAllReviews(elements, url) ==
    IF elements = <<>> THEN <<>>
    ELSE LET review_data == ExtractReviewData(Head(elements), url)
         IN (IF review_data.tag = "record" THEN <<review_data>> ELSE <<>>)
                \o ExtractAllReviews(Tail(elements), url)

\* [:max_reviews] for max_reviews >= 0
Take(s, n) == SubSeq(s, 1, IF n < Len(s) THEN n ELSE Len(s))

\* lines 161-180: the marker was present at the wait; find_elements (line
\* 169), a later query of the browser, gives the review-item elements the
\* page holds then, possibly none; the first max_reviews of them are
\* extracted, then the pacing delay
ExtractReviews(doc) ==
    /\ rpc = "wait"
    /\ reviews' = reviews \o ExtractAllReviews(Take(doc, maxReviews), urls[ui])
    /\ rlast' = [kind |-> "extracted", i |-> ui, before |-> reviews, doc |-> doc,
                 warned |-> ReviewWarnings(Take(doc, maxReviews), urls[ui])]
    /\ NextUrl
    /\ UNCHANGED <<urls, maxReviews, driver, launched, quits, navs, pending, rresult,
                   exVars, lVars, dVars, sVars>>

\* line 169 raises (the browser died): not caught inside the loop
FindElementsRaises ==
    /\ rpc = "wait"
    /\ rlast' = [kind |-> "find_raised", i |-> ui, before |-> reviews]
    /\ pending' = "WebDriverException"
    /\ rpc' = "finally"
    /\ UNCHANGED <<urls, maxReviews, driver, launched, quits, ui, reviews, navs,
                   rresult, exVars, lVars, dVars, sVars>>

\* lines 182-185: driver.quit(), then the exception in flight goes on to the
\* caller, or the DataFrame is returned
Finally ==
    /\ rpc = "finally"
    /\ driver' = "quit"
    /\ quits' = quits + 1
    /\ rresult' = IF pending # "none" THEN [tag |-> "raised", rows |-> <<>>]
                  ELSE [tag |-> "DataFrame", rows |-> reviews]
    /\ rpc' = "done"
    /\ UNCHANGED <<urls, maxReviews, launched, ui, reviews, navs, rlast, pending,
                   exVars, lVars, dVars, sVars>>

NextReviews ==
    \/ LaunchDriver
    \/ LaunchFails
    \/ Navigate
    \/ NavigateRaises
    \/ WaitTimesOut
    \/ \E doc \in ReviewDocs : ExtractReviews(doc)
    \/ FindElementsRaises
    \/ Finally

SpecReviews == InitReviews /\ [][NextReviews]_vars

----------------------------------------------------------------------------
(* scrape_social_mentions(keywords, platforms) *)

\* what response.json() can give for the search: no JSON at all (json()
\* raises), a JSON list (data.get raises), or an object whose children are
\* posts; a post is an object with a 'data' object holding some of the keys
\* of lines 246-253, or no object (post.get raises)
RedditBodies ==
    LET Whole == [tag |-> "dict",
                  data |-> [title |-> PyStr(<<"h", "i">>),
                            selftext |-> PyStr(<<"y", "o">>),
                            score |-> PyInt(7),
                            num_comments |-> PyInt(2),
                            created_utc |-> PyInt(9),
                            subreddit |-> PyStr(<<"s">>),
                            author |-> PyStr(<<"m", "e">>),
                            permalink |-> PyStr(<<"/", "r", "/", "s">>)]]
        Bare == [tag |-> "dict", data |-> [id |-> PyStr(<<"t", "3">>)]]
        NoDict == [tag |-> "str"]
    IN {[tag |-> "not json"],
        [tag |-> "list"],
        [tag |-> "dict", children |-> <<>>],
        [tag |-> "dict", children |-> <<Whole>>],
        [tag |-> "dict", children |-> <<Bare, Whole>>],
        [tag |-> "dict", children |-> <<Whole, NoDict, Bare>>]}

\* lines 244-256: the mention built from one post_data, each key read with
\* its default
Mention(post_data, keyword) ==
    LET Get(key, default) == IF key \in DOMAIN post_data THEN post_data[key] ELSE default
    IN [tag |-> "record",
        platform |-> "reddit",
        title |-> Get("title", PyStr(<<>>)),
        content |-> Get("selftext", PyStr(<<>>)),
        score |-> Get("score", PyInt(0)),
        comments |-> Get("num_comments", PyInt(0)),
        created_utc |-> Get("created_utc", PyInt(0)),
        subreddit |-> Get("subreddit", PyStr(<<>>)),
        author |-> Get("author", PyStr(<<>>)),
        url |-> PyStr(<<"h", "t", "t", "p", "s", ":", "/", "/", "r", "e", "d", "d", "i", "t",
                        ".", "c", "o", "m">> \o Get("permalink", PyStr(<<>>)).s),
        keyword |-> keyword]

\* lines 240-243 raise somewhere in the body
BodyRaises(body) ==
    \/ body.tag # "dict"
    \/ \E i \in 1..Len(body.children) : body.children[i].tag # "dict"

\* lines 242-256: the list `mentions` of _scrape_reddit_mentions when the loop
\* ends or raises: one mention per post, up to the first post that raises
RECURSIVE MentionsOf(_, _)
MentionsOf(children, keyword) ==
    IF children = <<>> \/ Head(children).tag # "dict" THEN <<>>
    ELSE <<Mention(Head(children).data, keyword)>> \o MentionsOf(Tail(children), keyword)

InitMentions ==
    /\ keywords \in SeqsUpTo({"mug", "lamp"}, MaxKeywords)
    /\ platforms \in {<<"reddit">>, <<"twitter", "reddit">>, <<>>}
    /\ IF keywords # <<>> /\ platforms # <<>>
       THEN spc = "platform" /\ ki = 1 /\ pi = 1
       ELSE spc = "return" /\ ki = Len(keywords) /\ pi = 0
    /\ mentions = <<>>
    /\ slog = <<>>
    /\ sresult = Pending
    /\ gets = [t \in (1..Len(keywords)) \X (1..Len(platforms)) |-> 0]
    /\ sinceDelay = 0
    /\ lpc = "idle"
    /\ maxPages = 0
    /\ cat = 0
    /\ page = 0
    /\ products = <<>>
    /\ origin = <<>>
    /\ llog = <<>>
    /\ llast = [kind |-> "none"]
    /\ lresult = Pending
    /\ ExIdle
    /\ RIdle
    /\ DIdle

\* lines 221-222: the next iteration of the two loops, or line 227
NextPlatform ==
    IF pi < Len(platforms)
    THEN spc' = "platform" /\ pi' = pi + 1 /\ ki' = ki
    ELSE IF ki < Len(keywords)
         THEN spc' = "platform" /\ pi' = 1 /\ ki' = ki + 1
         ELSE spc' = "return" /\ UNCHANGED <<ki, pi>>

\* line 223: a platform other than 'reddit' is passed over
OtherPlatform ==
    /\ spc = "platform"
    /\ platforms[pi] # "reddit"
    /\ NextPlatform
    /\ UNCHANGED <<keywords, platforms, mentions, slog, sresult, exVars, lVars, rVars, dVars>>

\* lines 224 and 231-256, 260-263: _scrape_reddit_mentions up to its delay.
\* When the GET, raise_for_status, json() or the loop over the posts raises,
\* the error is logged, the delay of line 258 is skipped and the mentions
\* built so far are returned and added; otherwise all are built and the
\* delay is next
ScrapeRedditMentions(outcome, body) ==
    /\ spc = "platform"
    /\ platforms[pi] = "reddit"
    /\ gets' = [gets EXCEPT ![<<ki, pi>>] = @ + 1]
    /\ sinceDelay' = sinceDelay + 1 + outcome.redirects
    /\ IF FetchRaises(outcome)
       THEN /\ slog' = Append(slog, ki)
            /\ NextPlatform
            /\ UNCHANGED mentions
       ELSE /\ mentions' = mentions \o (IF body.tag = "dict"
                                          THEN MentionsOf(body.children, keywords[ki])
                                          ELSE <<>>)
            /\ IF BodyRaises(body)
               THEN slog' = Append(slog, ki) /\ NextPlatform
               ELSE spc' = "delay" /\ UNCHANGED <<slog, ki, pi>>
    /\ UNCHANGED <<keywords, platforms, sresult, lpc, maxPages, cat, page, products, origin,
                   llog, llast, lresult, exVars, rVars, dVars>>

\* line 237 never returns: no timeout is passed; the GET of the url or the
\* GET of a redirection followed gets no answer
RedditBlocks(redirects) ==
    /\ spc = "platform"
    /\ platforms[pi] = "reddit"
    /\ gets' = [gets EXCEPT ![<<ki, pi>>] = @ + 1]
    /\ sinceDelay' = sinceDelay + 1 + redirects
    /\ spc' = "blocked"
    /\ UNCHANGED <<keywords, platforms, ki, pi, mentions, slog, sresult, lpc, maxPages, cat,
                   page, products, origin, llog, llast, lresult, exVars, rVars, dVars>>

\* line 258
RandomDelayAfterMentions ==
    /\ spc = "delay"
    /\ sinceDelay' = 0
    /\ NextPlatform
    /\ UNCHANGED <<keywords, platforms, mentions, slog, sresult, gets, lpc, maxPages, cat,
                   page, products, origin, llog, llast, lresult, exVars, rVars, dVars>>

\* line 227
ReturnMentions ==
    /\ spc = "return"
    /\ sresult' = [tag |-> "DataFrame", rows |-> mentions]
    /\ spc' = "done"
    /\ UNCHANGED <<keywords, platforms, ki, pi, mentions, slog, exVars, lVars, rVars, dVars>>

NextMentions ==
    \/ OtherPlatform
    \/ \E outcome \in FetchOutcomes, body \in RedditBodies : ScrapeRedditMentions(outcome, body)
    \/ \E redirects \in 0..MaxRedirects : RedditBlocks(redirects)
    \/ RandomDelayAfterMentions
    \/ ReturnMentions

SpecMentions == InitMentions /\ [][NextMentions]_vars

----------------------------------------------------------------------------
(* load_csv_file(csv_path), called twice on one loader *)

\* __init__ leaves self.engine None; connect() sets it (line 30)
InitLoader ==
    /\ dpc = "first"
    /\ engine \in {"None", "Engine"}
    /\ tables = [t \in TableNames |-> AbsentTable]
    /\ dlast = [kind |-> "none"]
    /\ AIdle
    /\ ExIdle
    /\ LIdle
    /\ RIdle
    /\ SIdle

\* load_csv_file is being called: by itself, or from the loop of line 101
Calling == dpc \in {"first", "second", "loop"}

NextCallStoppingAtFailure(ok) ==
    IF dpc = "loop"
    THEN /\ attempts' = Append(attempts, [file |-> csv_files[fi], ok |-> ok])
         /\ successful_loads' = IF ok THEN successful_loads + 1 ELSE successful_loads
         /\ fi' = fi + 1
         /\ IF fi < Len(csv_files) /\ ok
            THEN dpc' = "loop" /\ UNCHANGED aresult
            ELSE /\ dpc' = "loaded"
                 /\ aresult' = PyInt(IF ok THEN successful_loads + 1 ELSE successful_loads)
    ELSE /\ dpc' = IF dpc = "first" THEN "second" ELSE "done"
         /\ UNCHANGED <<fi, successful_loads, attempts, aresult>>

\* what follows a load_csv_file call that returned ok: in the loop, lines
\* 102-103 count it and line 101 goes on with the next file, or lines 105-106
\* return the count after the last one
NextCall(ok) ==
    IF dpc = "loop"
    THEN /\ attempts' = Append(attempts, [file |-> csv_files[fi], ok |-> ok])
         /\ successful_loads' = IF ok THEN successful_loads + 1 ELSE successful_loads
         /\ fi' = fi + 1
         /\ IF fi < Len(csv_files)
            THEN dpc' = "loop" /\ UNCHANGED aresult
            ELSE /\ dpc' = "loaded"
                 /\ aresult' = PyInt(IF ok THEN successful_loads + 1 ELSE successful_loads)
    ELSE /\ dpc' = IF dpc = "first" THEN "second" ELSE "done"
         /\ UNCHANGED <<fi, successful_loads, attempts, aresult>>

\* line 52 raises (no such file, an empty file): lines 79-81 return False
ReadCsvRaises(stem) ==
    /\ Calling
    /\ dlast' = [kind |-> "load", stage |-> "read", ok |-> FALSE,
                 table |-> TableNameFor[stem], before |-> tables, sql |-> <<>>]
    /\ NextCall(FALSE)
    /\ UNCHANGED <<engine, tables, csv_files, mpc, mlog, exVars, lVars, rVars, sVars>>

\* line 74 with self.engine None: to_sql raises, lines 79-81 return False
ToSqlWithoutEngine(csv) ==
    /\ Calling
    /\ engine = "None"
    /\ dlast' = [kind |-> "load", stage |-> "no_engine", ok |-> FALSE, csv |-> csv,
                 table |-> TableNameFor[csv.stem], before |-> tables, sql |-> <<>>]
    /\ NextCall(FALSE)
    /\ UNCHANGED <<engine, tables, csv_files, mpc, mlog, exVars, lVars, rVars, sVars>>

\* the statements of to_sql(if_exists='replace') on a table and a frame
ToSqlStatements(old, df) ==
    <<"has_table">>
        \o (IF old.exists THEN <<"DROP TABLE">> ELSE <<>>)
        \o <<"CREATE TABLE">>
        \o (IF df.rows # <<>> THEN <<"INSERT">> ELSE <<>>)

\* lines 52-77: the frame is written and True returned
ToSqlSucceeds(csv) ==
    /\ Calling
    /\ engine = "Engine"
    /\ LET table_name == TableNameFor[csv.stem]
           df == Frames[csv]
       IN /\ tables' = [tables EXCEPT ![table_name] = ReplacedTable(@, df)]
          /\ dlast' = [kind |-> "load", stage |-> "written", ok |-> TRUE, csv |-> csv,
                       table |-> table_name, before |-> tables,
                       sql |-> ToSqlStatements(tables[table_name], df)]
    /\ NextCall(TRUE)
    /\ UNCHANGED <<engine, csv_files, mpc, mlog, exVars, lVars, rVars, sVars>>

\* where a to_sql that raises leaves the database.  "unchanged": nothing was
\* committed (no connection, DROP refused, or pandas 2, which runs the whole
\* to_sql in one transaction and rolls it back).  pandas 1.5, which the
\* requirement pandas>=1.5.0 admits, commits DROP and CREATE on their own and
\* runs only the INSERTs in a transaction: "dropped" is CREATE failing after
\* the DROP, "created" is an INSERT failing after the CREATE.
ToSqlFailures == {"unchanged", "dropped", "created"}

\* line 74 raises, lines 79-81 return False
ToSqlRaises(csv, failure) ==
    /\ Calling
    /\ engine = "Engine"
    /\ LET table_name == TableNameFor[csv.stem]
           df == Frames[csv]
       IN /\ failure = "dropped" => tables[table_name].exists
          /\ failure = "created" => df.rows # <<>>
          /\ tables' = [tables EXCEPT ![table_name] =
                          CASE failure = "unchanged" -> @
                            [] failure = "dropped" -> AbsentTable
                            [] OTHER -> CreatedTable(df)]
          /\ dlast' = [kind |-> "load", stage |-> failure, ok |-> FALSE, csv |-> csv,
                       table |-> table_name, before |-> tables,
                       sql |-> CASE failure = "unchanged" -> <<"has_table">>
                                 [] failure = "dropped" ->
                                      <<"has_table", "DROP TABLE", "CREATE TABLE">>
                                 [] OTHER -> ToSqlStatements(tables[table_name], df)]
    /\ NextCall(FALSE)
    /\ UNCHANGED <<engine, csv_files, mpc, mlog, exVars, lVars, rVars, sVars>>

NextLoader ==
    \/ \E stem \in Stems : ReadCsvRaises(stem)
    \/ \E csv \in CsvFiles : ToSqlWithoutEngine(csv)
    \/ \E csv \in CsvFiles : ToSqlSucceeds(csv)
    \/ \E csv \in CsvFiles, failure \in ToSqlFailures : ToSqlRaises(csv, failure)

SpecLoader == InitLoader /\ [][NextLoader]_vars

----------------------------------------------------------------------------
(* load_all_csv_files(data_directory) *)

\* the None of the bare returns of lines 89 and 96
NoCount == [tag |-> "None"]

\* a loader with or without connect() called, and load_all_csv_files about
\* to run on an empty database
InitLoadAll ==
    /\ dpc = "scan"
    /\ engine \in {"None", "Engine"}
    /\ tables = [t \in TableNames |-> AbsentTable]
    /\ dlast = [kind |-> "none"]
    /\ csv_files = <<>>
    /\ fi = 0
    /\ successful_loads = 0
    /\ attempts = <<>>
    /\ aresult = Pending
    /\ mpc = "idle"
    /\ mlog = <<>>
    /\ ExIdle
    /\ LIdle
    /\ RIdle
    /\ SIdle

\* lines 87-89: no such directory
DirectoryMissing ==
    /\ dpc = "scan"
    /\ aresult' = NoCount
    /\ dpc' = "loaded"
    /\ dlast' = [kind |-> "no directory"]
    /\ UNCHANGED <<engine, tables, csv_files, fi, successful_loads, attempts,
                   mpc, mlog, exVars, lVars, rVars, sVars>>

\* lines 92-96: the directory holds no CSV file
NoCsvFound ==
    /\ dpc = "scan"
    /\ aresult' = NoCount
    /\ dpc' = "loaded"
    /\ dlast' = [kind |-> "no csv"]
    /\ UNCHANGED <<engine, tables, csv_files, fi, successful_loads, attempts,
                   mpc, mlog, exVars, lVars, rVars, sVars>>

\* lines 92-101: files found, the counter at 0, the loop at the first file
CsvFound(files) ==
    /\ dpc = "scan"
    /\ files # <<>>
    /\ csv_files' = files
    /\ fi' = 1
    /\ successful_loads' = 0
    /\ dpc' = "loop"
    /\ UNCHANGED <<engine, tables, dlast, attempts, aresult, mpc, mlog,
                   exVars, lVars, rVars, sVars>>

\* line 102: load_csv_file(csv_file) on the file the loop stands at
LoadNextFile ==
    /\ dpc = "loop"
    /\ \/ ReadCsvRaises(csv_files[fi].stem)
       \/ ToSqlSucceeds(Csv(csv_files[fi]))
       \/ \E failure \in ToSqlFailures : ToSqlRaises(Csv(csv_files[fi]), failure)

LoadNextFileWithoutEngine ==
    /\ dpc = "loop"
    /\ ToSqlWithoutEngine(Csv(csv_files[fi]))

NextLoadAll ==
    \/ DirectoryMissing
    \/ NoCsvFound
    \/ \E files \in FoundLists : CsvFound(files)
    \/ LoadNextFile
    \/ LoadNextFileWithoutEngine

SpecLoadAll == InitLoadAll /\ [][NextLoadAll]_vars

----------------------------------------------------------------------------
(* main() of basic_csv_loader.py *)

InitMain ==
    /\ mpc = "connect"
    /\ mlog = <<>>
    /\ dpc = "idle"
    /\ engine = "None"
    /\ tables = [t \in TableNames |-> AbsentTable]
    /\ dlast = [kind |-> "none"]
    /\ csv_files = <<>>
    /\ fi = 0
    /\ successful_loads = 0
    /\ attempts = <<>>
    /\ aresult = Pending
    /\ ExIdle
    /\ LIdle
    /\ RIdle
    /\ SIdle

\* lines 176-183: connect; on failure main returns, else load_all_csv_files
\* is called.  loader.connect() returns True with the engine set, or fails in
\* create_engine, the engine left None, or fails in the connection test, the
\* engine already set at line 30
MainConnect(outcome) ==
    /\ mpc = "connect"
    /\ engine' = IF outcome = "create_engine raised" THEN "None" ELSE "Engine"
    /\ IF outcome = "connected"
       THEN /\ mlog' = <<"connected", "load_all_csv_files">>
            /\ mpc' = "load"
            /\ dpc' = "scan"
       ELSE /\ mlog' = <<"not connected">>
            /\ mpc' = "done"
            /\ UNCHANGED dpc
    /\ UNCHANGED <<tables, dlast, csv_files, fi, successful_loads, attempts, aresult,
                   exVars, lVars, rVars, sVars>>

\* lines 185-187: load_all_csv_files has returned; main returns when
\* successful_loads == 0, which the None of the bare returns is not
MainChecksLoads ==
    /\ mpc = "load"
    /\ dpc = "loaded"
    /\ IF aresult = PyInt(0)
       THEN mlog' = Append(mlog, "no files loaded") /\ mpc' = "done"
       ELSE UNCHANGED mlog /\ mpc' = "show"
    /\ UNCHANGED <<dpc, engine, tables, dlast, csv_files, fi, successful_loads, attempts,
                   aresult, exVars, lVars, rVars, sVars>>

\* lines 190-191; show_tables catches every exception
MainShowTables ==
    /\ mpc = "show"
    /\ mlog' = Append(mlog, "show_tables")
    /\ mpc' = "sample"
    /\ UNCHANGED <<dpc, engine, tables, dlast, csv_files, fi, successful_loads, attempts,
                   aresult, exVars, lVars, rVars, sVars>>

\* lines 194-196: three sample queries; run_sample_query catches every
\* exception
MainSampleQueries ==
    /\ mpc = "sample"
    /\ mlog' = mlog \o <<"run_sample_query", "run_sample_query", "run_sample_query">>
    /\ mpc' = "close"
    /\ UNCHANGED <<dpc, engine, tables, dlast, csv_files, fi, successful_loads, attempts,
                   aresult, exVars, lVars, rVars, sVars>>

\* lines 199-205: loader.close(), the closing message, return
MainClose ==
    /\ mpc = "close"
    /\ mlog' = mlog \o <<"close", "CSV LOADING COMPLETED">>
    /\ mpc' = "done"
    /\ UNCHANGED <<dpc, engine, tables, dlast, csv_files, fi, successful_loads, attempts,
                   aresult, exVars, lVars, rVars, sVars>>

NextMain ==
    \/ \E outcome \in {"connected", "create_engine raised", "test raised"} :
          MainConnect(outcome)
    \/ DirectoryMissing
    \/ NoCsvFound
    \/ \E files \in FoundLists : CsvFound(files)
    \/ LoadNextFile
    \/ MainChecksLoads
    \/ MainShowTables
    \/ MainSampleQueries
    \/ MainClose

SpecMain == InitMain /\ [][NextMain]_vars

----------------------------------------------------------------------------
(* Properties of scrape_product_listings *)

LastTask == <<llast.cat, llast.page>>

\* the loops stand at the iteration after the last fetch's task
AtTaskAfterLast ==
    IF llast.page < maxPages
    THEN lpc = "fetch" /\ cat = llast.cat /\ page = llast.page + 1
    ELSE IF llast.cat < Len(Categories)
         THEN lpc = "fetch" /\ cat = llast.cat + 1 /\ page = 1
         ELSE lpc \in {"return", "done"}

Is2xx(status) == 200 <= status /\ status < 300

\* C1 as stated: a fetch that ends in a connection error, a timeout or ANY
\* non-2xx status adds no record, is logged, and the crawl goes on to the
\* next page.
C1_AnyNon2xxAddsNothing ==
    (llast.kind # "none"
        /\ (llast.outcome.kind # "response" \/ ~Is2xx(llast.outcome.status)))
    => /\ products = llast.before
       /\ llog # <<>> /\ llog[Len(llog)] = LastTask
       /\ AtTaskAfterLast

\* C1, amended: a fetch that raises (connection error, timeout, or a 4xx/5xx
\* status) adds no record to the accumulator, is logged, leaves the loops at
\* the next (category, page); nothing is ever raised to the caller, and when
\* the call is done every (category, page) has been fetched, whichever failed.
C1_FailedFetchIsIsolated ==
    /\ llast.kind = "failed"
        => /\ products = llast.before
           /\ llog # <<>> /\ llog[Len(llog)] = LastTask
           /\ AtTaskAfterLast
    /\ lresult.tag # "raised"
    /\ lpc = "done" => lresult.tag = "DataFrame" /\ \A t \in Tasks : gets[t] >= 1

\* the first page failed with HTTP 500, a later category was still fetched
\* and its records returned
C1_Witness ==
    /\ lpc = "done"
    /\ llog # <<>> /\ llog[1] = <<1, 1>>
    /\ gets[<<2, 1>>] = 1
    /\ llast.kind = "failed" /\ llast.outcome.status = 500
    /\ lresult.tag = "DataFrame" /\ lresult.rows # <<>>

\* C2 as stated: a fetch given up after a transient failure (connection
\* error, timeout, 5xx) has been tried max_retries times, and no URL is
\* fetched more than max_retries times.
C2_TransientFailureRetriedToBudget ==
    /\ \A t \in DOMAIN gets : gets[t] <= MaxRetries
    /\ (llast.kind = "failed" /\ Transient(llast.outcome))
        => gets[LastTask] = MaxRetries

\* C3 as stated: a response that is neither 2xx nor 5xx makes the fetch fail
\* after exactly one GET.
C3_Non2xxNon5xxFailsAtOnce ==
    (llast.kind # "none" /\ llast.outcome.kind = "response"
        /\ ~Is2xx(llast.outcome.status) /\ ~Transient(llast.outcome))
    => llast.kind = "failed" /\ gets[LastTask] = 1 /\ AtTaskAfterLast

\* C3, amended: a 4xx response makes the fetch fail after exactly one GET of
\* that URL, and the loops move on; no URL is ever fetched twice.  A non-2xx
\* status outside 400..599 (a 3xx that is not followed) does not fail: its
\* body is parsed, after one GET as well.
C3_ClientErrorFailsAtOnce ==
    /\ \A t \in DOMAIN gets : gets[t] <= 1
    /\ (llast.kind # "none" /\ llast.outcome.kind = "response"
            /\ 400 <= llast.outcome.status /\ llast.outcome.status < 500)
        => llast.kind = "failed" /\ gets[LastTask] = 1 /\ AtTaskAfterLast
    /\ (llast.kind # "none" /\ llast.outcome.kind = "response"
            /\ ~Is2xx(llast.outcome.status) /\ ~RaisesForStatus(llast.outcome.status))
        => llast.kind = "parsed" /\ gets[LastTask] = 1

\* a 404 on page 1, and the loop already at page 2
C3_Witness ==
    /\ llast.kind = "failed"
    /\ llast.outcome.kind = "response" /\ llast.outcome.status = 404
    /\ LastTask = <<1, 1>> /\ gets[<<1, 1>>] = 1
    /\ lpc = "fetch" /\ page = 2

\* C4 as stated: a _random_delay call lies between any two consecutive
\* requests, also after a request that failed.
C4_DelayBetweenRequests == sinceDelay <= 1

----------------------------------------------------------------------------
(* Properties of scrape_reviews_selenium *)

\* C5: a launched browser is quit exactly once by the end of the call, however
\* the call ends (return, marker timeout, extraction error, navigation
\* exception), never more than once, and no browser is left open.
C5_DriverQuitExactlyOnce ==
    /\ quits <= 1
    /\ ~launched => quits = 0 /\ driver = "none"
    /\ (launched /\ rpc = "done") => quits = 1 /\ driver = "quit"
    /\ rpc = "done" => driver # "open"

\* the call ended with the navigation exception raised, after the quit
C5_Witness ==
    /\ rpc = "done"
    /\ rlast.kind = "nav_raised"
    /\ rresult.tag = "raised"
    /\ quits = 1 /\ driver = "quit"

\* C6 as stated: a failed launch reaches the caller as an error, not as a
\* result; no page is navigated.
C6_LaunchFailureSurfaced ==
    (rpc = "done" /\ ~launched) => rresult.tag = "raised" /\ navs = 0

\* C7: after a marker timeout on one url no exception is in flight, the
\* accumulator is what it was before that url, and the loop stands at the
\* next url with the browser still open (or, after the last url, at the
\* normal end of the call, which returns the DataFrame).
C7_MarkerTimeoutSkipsUrl ==
    rlast.kind = "timeout"
    => /\ pending = "none"
       /\ reviews = rlast.before
       /\ IF rlast.i < Len(urls)
          THEN rpc = "nav" /\ ui = rlast.i + 1 /\ driver = "open"
          ELSE /\ rpc \in {"finally", "done"}
               /\ rpc = "finally" => driver = "open"
               /\ rpc = "done" => rresult = [tag |-> "DataFrame", rows |-> reviews]

\* the first of two urls timed out and the second is about to be loaded
C7_Witness ==
    /\ rlast.kind = "timeout" /\ rlast.i = 1
    /\ Len(urls) = 2
    /\ rpc = "nav" /\ ui = 2 /\ driver = "open"

----------------------------------------------------------------------------
(* Properties of the field extractors *)

Done(fn) == exPc = "done" /\ exFn = fn

HasAsciiDigit(t) == \E i \in 1..Len(t) : IsAsciiDigit(t[i])

Five == Float(5, 0)

\* C8 as stated: no extractor raises, and a field that cannot be resolved
\* is 0 (numeric) or the empty string (name, reviewer name, image reference,
\* review text, review date).
C8_UnresolvedFieldsDefaultToZeroOrEmpty ==
    /\ exPc = "done" => exOut.tag # "ValueError"
    /\ Done("_extract_product_data")
        => /\ exOut.tag = "record"
           /\ ~exIn.name.found => exOut.name = <<>>
           /\ ~exIn.price.found => exOut.price = Zero
           /\ ~exIn.rating.found => exOut.rating = Zero
           /\ ~(exIn.img.found /\ exIn.img.hasSrc) => exOut.image_url = PyStr(<<>>)
    /\ Done("_extract_review_data")
        => /\ exOut.tag = "record"
           /\ ~exIn.reviewer.found => exOut.reviewer_name = <<>>
           /\ ~exIn.rating.found => exOut.rating = Zero
           /\ ~exIn.text.found => exOut.review_text = <<>>
           /\ ~exIn.date.found => exOut.review_date = <<>>

\* C8, amended: no extractor raises; a numeric field that cannot be resolved
\* (no element, no digit in its text) is 0; a product without a name element
\* is named 'Unknown', a product without an img element has the empty string
\* as image reference and one whose img has no src has None; a review node
\* missing any of its four children gives no record at all.
C8_ExtractorsNeverRaise ==
    /\ exPc = "done" => exOut.tag \in {"float", "record", "None"}
    /\ (Done("_clean_price") /\ ~HasAsciiDigit(exIn)) => exOut = Zero
    /\ (Done("_extract_rating") /\ ~HasAsciiDigit(exIn.text) /\ exIn.stars = 0)
        => exOut = Zero
    /\ (Done("_extract_rating_from_text") /\ ~HasAsciiDigit(exIn)) => exOut = Zero
    /\ Done("_extract_product_data")
        => /\ exOut.tag = "record"
           /\ exOut.price.tag = "float" /\ exOut.rating.tag = "float"
           /\ ~exIn.name.found => exOut.name = Unknown
           /\ ~exIn.price.found => exOut.price = Zero
           /\ ~exIn.rating.found => exOut.rating = Zero
           /\ ~exIn.img.found => exOut.image_url = PyStr(<<>>)
           /\ (exIn.img.found /\ ~exIn.img.hasSrc) => exOut.image_url = PyNone
    /\ Done("_extract_review_data")
        => IF ReviewChildrenFound(exIn)
           THEN exOut.tag = "record" /\ exOut.rating.tag = "float"
           ELSE exOut = NoRecord

\* a product node with none of its four children gave a record of defaults
C8_Witness ==
    /\ Done("_extract_product_data")
    /\ ~exIn.name.found /\ ~exIn.price.found /\ ~exIn.rating.found /\ ~exIn.img.found
    /\ exOut.name = Unknown /\ exOut.price = Zero /\ exOut.rating = Zero

\* C9 as stated: every rating that _extract_rating or
\* _extract_rating_from_text produces lies in [0.0, 5.0].
C9_RatingWithinRange ==
    (Done("_extract_rating") \/ Done("_extract_rating_from_text"))
    => NumLeq(Zero, exOut) /\ NumLeq(exOut, Five)

\* C10: _clean_price gives the number written by the digits and decimal
\* points of its input: 1234.56 for "$1,234.56", 0.0 for an input without a
\* digit, for one that keeps only decimal points and for one with several
\* decimal points, and never a negative number.
C10_CleanPrice ==
    Done("_clean_price")
    => /\ exOut.tag = "float" /\ exOut.m >= 0
       /\ exIn = ExamplePrice => exOut = ExamplePriceValue
       /\ ~HasAsciiDigit(exIn) => exOut = Zero
       /\ Count(exIn, ".") >= 2 => exOut = Zero
       /\ (Count(exIn, ".") <= 1 /\ Count(exIn, "sup2") = 0 /\ HasAsciiDigit(exIn))
            => exOut = ParseFloat(SelectSeq(exIn, LAMBDA c : IsAsciiDigit(c) \/ c = "."))

\* the call on "$1,234.56" returned 1234.56
C10_Witness ==
    /\ Done("_clean_price")
    /\ exIn = ExamplePrice
    /\ exOut = ExamplePriceValue

----------------------------------------------------------------------------
(* Properties of the extraction of one listing page *)

\* the records the last fetch appended
Appended == SubSeq(products, Len(llast.before) + 1, Len(products))

Mug == <<"M", "u", "g">>

\* C11: a parsed page appends exactly one record per product-item node, in
\* node order: the record of a node without a price element has price 0.0,
\* the record of a node with one has the parsed price (1234.56), and every
\* record keeps the node's name and the category of the page.
C11_OneRecordPerNode ==
    llast.kind = "parsed"
    => /\ SubSeq(products, 1, Len(llast.before)) = llast.before
       /\ Len(Appended) = Len(llast.doc)
       /\ \A i \in 1..Len(llast.doc) :
            /\ Appended[i].tag = "record"
            /\ Appended[i].price =
                  IF llast.doc[i].price.found THEN ExamplePriceValue ELSE Zero
            /\ Appended[i].name = Mug
            /\ Appended[i].category = Categories[llast.cat]

\* a page of three nodes, the second without a price, gave three records
C11_Witness ==
    /\ llast.kind = "parsed"
    /\ Len(llast.doc) = 3
    /\ llast.doc[1].price.found /\ ~llast.doc[2].price.found /\ llast.doc[3].price.found
    /\ Len(Appended) = 3
    /\ Appended[2].price = Zero /\ Appended[1].price = ExamplePriceValue

----------------------------------------------------------------------------
(* Properties of the extraction of one review page *)

\* the elements of the last page that the loop of lines 171-178 visited
Visited == Take(rlast.doc, maxReviews)

Complete(element) ==
    /\ element.reviewer.found /\ element.rating.found
    /\ element.text.found /\ element.date.found

\* the records the last page appended
AppendedReviews == SubSeq(reviews, Len(rlast.before) + 1, Len(reviews))

\* C12: the accumulator never holds a None; after the extraction of a page
\* the records before it are kept, every visited element with its four
\* children has given one record (in element order) and every visited element
\* missing a child has given none and one logged warning; no exception is in
\* flight and the loop stands at the next url, or at the normal end of the
\* call after the last one.
C12_FailedRecordIsSkipped ==
    /\ \A i \in 1..Len(reviews) : reviews[i].tag = "record"
    /\ rlast.kind = "extracted"
       => /\ SubSeq(reviews, 1, Len(rlast.before)) = rlast.before
          /\ Len(AppendedReviews) = Len(SelectSeq(Visited, Complete))
          /\ \A i \in 1..Len(AppendedReviews) :
                /\ AppendedReviews[i].product_url = urls[rlast.i]
                /\ AppendedReviews[i].reviewer_name = <<"A", "n", "n">>
          /\ rlast.warned = Len(Visited) - Len(SelectSeq(Visited, Complete))
          /\ pending = "none"
          /\ IF rlast.i < Len(urls)
             THEN rpc = "nav" /\ ui = rlast.i + 1 /\ driver = "open"
             ELSE /\ rpc \in {"finally", "done"}
                  /\ rpc = "done" => rresult = [tag |-> "DataFrame", rows |-> reviews]

\* the first of two pages held an element without a reviewer and then a
\* complete one: one warning, one record, and the second page is next
C12_Witness ==
    /\ rlast.kind = "extracted" /\ rlast.i = 1 /\ Len(urls) = 2
    /\ Len(Visited) = 2
    /\ ~Complete(Visited[1]) /\ Complete(Visited[2])
    /\ rlast.warned = 1
    /\ Len(reviews) = 1
    /\ rpc = "nav" /\ ui = 2

----------------------------------------------------------------------------
(* Properties of the returned review set *)

\* the natural key of a review record
ReviewKey(r) == <<r.reviewer_name, r.review_date, r.review_text>>

\* C15: the DataFrame returned by scrape_reviews_selenium holds at most one
\* record per (reviewer, date, text) key.
C15_ReviewsDeduplicated ==
    (rpc = "done" /\ rresult.tag = "DataFrame")
    => \A i, j \in 1..Len(rresult.rows) :
          i # j => ReviewKey(rresult.rows[i]) # ReviewKey(rresult.rows[j])

----------------------------------------------------------------------------
(* Properties of the order of the returned listing set *)

\* task s is not dispatched after task t: category first, then page
NotAfter(s, t) == s[1] < t[1] \/ (s[1] = t[1] /\ s[2] <= t[2])

\* C16: at every moment, and so in the returned DataFrame, the records stand
\* in dispatch order: a record of an earlier category precedes every record
\* of a later one, within a category a record of page p precedes every record
\* of a later page, and each record carries the category it was fetched for;
\* the returned rows are the accumulator.
C16_RecordsInDispatchOrder ==
    /\ Len(origin) = Len(products)
    /\ \A i, j \in 1..Len(products) : i < j => NotAfter(origin[i], origin[j])
    /\ \A i \in 1..Len(products) : products[i].category = Categories[origin[i][1]]
    /\ lresult.tag = "DataFrame" => lresult.rows = products

\* the first page of the first category failed, and the returned set holds a
\* record of its second page before a record of the second category
C16_Witness ==
    /\ lpc = "done" /\ lresult.tag = "DataFrame"
    /\ maxPages = 2
    /\ \E k \in 1..Len(llog) : llog[k] = <<1, 1>>
    /\ \E i, j \in 1..Len(products) :
          i < j /\ origin[i] = <<1, 2>> /\ origin[j][1] = 2

----------------------------------------------------------------------------
(* Termination of scrape_product_listings *)

\* C17 as stated: the call ends; no (category, page) with page in
\* 1..max_pages is ever fetched twice; when the call has ended every such
\* pair has been fetched exactly once, whichever fetches failed, nothing was
\* raised, and the returned DataFrame holds exactly the accumulated records,
\* empty or not.
C17_CrawlReachesDone ==
    /\ <>(lpc = "done")
    /\ [](DOMAIN gets = Tasks /\ \A t \in Tasks : gets[t] <= 1)
    /\ [](lpc = "done"
            => /\ \A t \in Tasks : gets[t] = 1
               /\ lresult = [tag |-> "DataFrame", rows |-> products])

----------------------------------------------------------------------------
(* Properties of load_csv_file *)

Loaded == dlast.kind = "load" /\ dlast.ok

\* the data lines of the last file that are not empty throughout
KeptLines == SelectSeq(dlast.csv.rows, LAMBDA line : \E j \in 1..Len(line) : line[j] # <<>>)

\* C13: after a load that returned True the table named after the file
\* exists and holds exactly the columns and the rows of the frame made from
\* that file, whatever the table held or whether it existed before; every
\* other table is as it was.
C13_LoadReplacesTable ==
    Loaded
    => LET df == Prepare(dlast.csv)
           table == tables[dlast.table]
       IN /\ table.exists
          /\ Len(table.cols) = Len(df.cols)
          /\ \A j \in 1..Len(df.cols) :
                /\ table.cols[j].name = df.cols[j].name
                /\ table.cols[j].type = SqlType(df.cols[j].dtype)
          /\ Len(table.rows) = Len(KeptLines)
          /\ table.rows = InsertedRows(df)
          /\ \A other \in TableNames \ {dlast.table} : tables[other] = dlast.before[other]

\* the second load replaced a table of other columns and two rows by the one
\* row of its own file
C13_Witness ==
    /\ Loaded /\ dpc = "done"
    /\ dlast.before[dlast.table].exists
    /\ Len(dlast.before[dlast.table].rows) = 2
    /\ dlast.before[dlast.table].cols # tables[dlast.table].cols
    /\ Len(tables[dlast.table].rows) = 1

\* C14: a load that returned True has read the table's row count back after
\* its write.
C14_RowCountVerified ==
    Loaded
    => \E i, k \in 1..Len(dlast.sql) :
          i < k /\ dlast.sql[i] = "INSERT" /\ dlast.sql[k] = "SELECT COUNT"

\* C18: after a load that returned False the table is what it was before the
\* call, or absent.
C18_FailedLoadLeavesTableOrNothing ==
    (dlast.kind = "load" /\ ~dlast.ok)
    => \/ tables[dlast.table] = dlast.before[dlast.table]
       \/ ~tables[dlast.table].exists

----------------------------------------------------------------------------
(* Properties of the date columns *)

DateNamed(j) == Contains(CleanColumnName(dlast.csv.header[j]), <<"d", "a", "t", "e">>)

\* column j of the last file was read as text
ReadAsText(j) ==
    \/ dlast.csv.rows = <<>>
    \/ \E i \in 1..Len(dlast.csv.rows) :
          dlast.csv.rows[i][j] # <<>> /\ ~IsIntegerText(dlast.csv.rows[i][j])

\* every kept cell of column j is the date text 2024-01-05
AllDates(j) == \A i \in 1..Len(KeptLines) : KeptLines[i][j] = IsoDate

\* column j of the loaded table is a timestamp column holding that day
IsTimestampColumn(j) ==
    /\ tables[dlast.table].cols[j].type = "TIMESTAMP"
    /\ \A i \in 1..Len(KeptLines) :
          tables[dlast.table].rows[i][j]
             = [tag |-> "Timestamp", year |-> 2024, month |-> 1, day |-> 5]

\* column j of the loaded table is a text column holding the file's texts
KeepsOriginalText(j) ==
    /\ tables[dlast.table].cols[j].type = "TEXT"
    /\ \A i \in 1..Len(KeptLines) :
          tables[dlast.table].rows[i][j] = PyStr(KeptLines[i][j])

\* column j of the loaded table is as read_csv read it
AsRead(j) ==
    LET dtype == InferDtype(ColumnCells(dlast.csv.rows, j))
    IN /\ tables[dlast.table].cols[j].type = SqlType(dtype)
       /\ \A i \in 1..Len(KeptLines) :
             tables[dlast.table].rows[i][j] = SqlValue(ReadCell(KeptLines[i][j], dtype))

\* C19 as stated: in a loaded table every column whose normalized name
\* contains 'date' is a timestamp column, or, its conversion having failed,
\* keeps the original text.
C19_DateNamedColumnsCoerced ==
    Loaded
    => \A j \in 1..Len(dlast.csv.header) :
          DateNamed(j) => (IF AllDates(j) THEN IsTimestampColumn(j) ELSE KeepsOriginalText(j))

\* C19, amended: in a loaded table a column whose normalized name contains
\* 'date' and that was read as text is a timestamp column when every text of
\* it is a date, and keeps its original text when one is not; every other
\* column, a date-named column read as numbers included, is as it was read;
\* a failed conversion does not keep the load from returning True.
C19_TextDateColumnsCoerced ==
    Loaded
    => \A j \in 1..Len(dlast.csv.header) :
          IF DateNamed(j) /\ ReadAsText(j)
          THEN (IF AllDates(j) THEN IsTimestampColumn(j) ELSE KeepsOriginalText(j))
          ELSE AsRead(j)

\* a file with a dated line and a line whose 'Order Date' is no date was
\* loaded: order_date is text, id is a column of integers
C19_Witness ==
    /\ Loaded
    /\ Len(KeptLines) = 2
    /\ CleanColumnName(dlast.csv.header[2]) = <<"o", "r", "d", "e", "r", "_", "d", "a", "t", "e">>
    /\ ~AllDates(2)
    /\ tables[dlast.table].cols[2].type = "TEXT"
    /\ tables[dlast.table].rows[1][2] = PyStr(IsoDate)
    /\ tables[dlast.table].cols[1].type = "BIGINT"

----------------------------------------------------------------------------
(* Properties of _random_delay *)

Whole(n) == Float(n, 0)

\* C20: the delay slept lies between the two ends of delay_range, so within
\* [min, max] for a delay_range (min, max) with min <= max.
C20_DelayWithinRange ==
    Done("_random_delay")
    => LET a == exIn.delay_range[1]
           b == exIn.delay_range[2]
       IN /\ exOut.tag = "float"
          /\ a <= b => NumLeq(Whole(a), exOut) /\ NumLeq(exOut, Whole(b))
          /\ b <= a => NumLeq(Whole(b), exOut) /\ NumLeq(exOut, Whole(a))

\* the default range (1, 3) with the largest draw: a delay above 2.5 and
\* not above 3
C20_Witness ==
    /\ Done("_random_delay")
    /\ exIn.delay_range = <<1, 3>>
    /\ exIn.random = Pow10(RandomDigits) - 1
    /\ NumLeq(Float(25, 1), exOut) /\ NumLeq(exOut, Whole(3))
    /\ exOut # Whole(3)

----------------------------------------------------------------------------
(* Properties of the fallback chain of _extract_rating *)

Unparsable(t) == ParseFloat(t).tag = "ValueError"

\* C22: a rating element whose text holds 'out of' (and no '/5') or '/5'
\* (and no 'out of') before which no number can be read, and which holds
\* k > 0 filled-star markers, resolves to k.
C22_UnparsableTextFallsBackToStars ==
    Done("_extract_rating")
    => LET rating_text == Strip(exIn.text)
           outOfFails == /\ Contains(rating_text, OutOf)
                         /\ ~Contains(rating_text, SlashFive)
                         /\ Unparsable(FirstWord(rating_text))
           slashFiveFails == /\ ~Contains(rating_text, OutOf)
                             /\ Contains(rating_text, SlashFive)
                             /\ Unparsable(BeforeSlash(rating_text))
       IN ((outOfFails \/ slashFiveFails) /\ exIn.stars > 0)
             => exOut = Float(exIn.stars, 0)

----------------------------------------------------------------------------
(* Properties of a navigation that raises *)

\* C23: once driver.get has raised on a url the exception stays in flight, no
\* further url is navigated to and no review is added; the call ends with the
\* browser quit once and the exception raised to the caller, no DataFrame
\* being returned, whatever had been accumulated from earlier urls.
C23_NavigationExceptionNotIsolated ==
    rlast.kind = "nav_raised"
    => /\ pending # "none"
       /\ navs = rlast.i /\ ui = rlast.i
       /\ reviews = rlast.before
       /\ rpc \in {"finally", "done"}
       /\ rpc = "finally" => driver = "open" /\ quits = 0
       /\ rpc = "done" => /\ driver = "quit" /\ quits = 1
                          /\ rresult = [tag |-> "raised", rows |-> <<>>]

\* the first of two urls gave a review, the second raised in driver.get: the
\* call ended raised, the review of the first url lost
C23_Witness ==
    /\ rlast.kind = "nav_raised" /\ rlast.i = 2
    /\ Len(urls) = 2
    /\ reviews # <<>>
    /\ rpc = "done"
    /\ rresult.tag = "raised" /\ rresult.rows = <<>>

----------------------------------------------------------------------------
(* Properties of load_all_csv_files *)

Returned == dpc = "loaded" /\ csv_files # <<>>

ExistingTables == {t \in TableNames : tables[t].exists}

\* C21: when load_all_csv_files has loaded every one of the N files it found,
\* the database holds N tables, and the table named after each file holds
\* the rows of that file.
C21_OneTablePerFile ==
    (Returned /\ aresult = PyInt(Len(csv_files)))
    => /\ Cardinality(ExistingTables) = Len(csv_files)
       /\ \A k \in 1..Len(csv_files) :
             tables[TableNameOf(csv_files[k].stem)].rows
                = InsertedRows(Prepare(Csv(csv_files[k])))

Oks == SelectSeq(attempts, LAMBDA attempt : attempt.ok)

\* C24: the loop calls load_csv_file on the files found, one after the other
\* in list order, each once, whatever the earlier calls returned; no call
\* raises; the counter is the number of calls that returned True; without an
\* engine every call returns False; the value returned after the last file is
\* that number, between 0 and the number of files.
C24_EveryFileAttemptedOnce ==
    /\ Len(attempts) <= Len(csv_files)
    /\ \A k \in 1..Len(attempts) : attempts[k].file = csv_files[k]
    /\ successful_loads = Len(Oks)
    /\ engine = "None" => Oks = <<>>
    /\ dpc = "loop" => fi = Len(attempts) + 1 /\ aresult = Pending
    /\ Returned
        => /\ Len(attempts) = Len(csv_files)
           /\ aresult = PyInt(Len(Oks))
           /\ 0 <= aresult.v /\ aresult.v <= Len(csv_files)

\* two files found, the load of the first failed, the second was loaded: the
\* count returned is 1
C24_Witness ==
    /\ Returned
    /\ Len(csv_files) = 2
    /\ ~attempts[1].ok /\ attempts[2].ok
    /\ aresult = PyInt(1)

----------------------------------------------------------------------------
(* Properties of main *)

Took(step) == \E k \in 1..Len(mlog) : mlog[k] = step

\* C25: when main has returned after a load step in which no file was loaded
\* (count 0, no CSV file found, or no data directory), it has not shown the
\* table summary, run a sample query or printed 'CSV LOADING COMPLETED'; and
\* when main has returned after connecting, it has closed the connection.
C25_MainStopsWithoutLoadsAndCloses ==
    mpc = "done"
    => /\ (Took("load_all_csv_files") /\ aresult \in {PyInt(0), NoCount})
           => /\ ~Took("show_tables")
              /\ ~Took("run_sample_query")
              /\ ~Took("CSV LOADING COMPLETED")
       /\ Took("connected") => Took("close")

====
